---- MODULE Spec2Model ----
(***************************************************************************)
(* Model of DiscordClient (src/main.py): the gateway loop                  *)
(* maintain_presence, the heartbeat task _heartbeat_loop and cleanup.      *)
(* One action is one run of a coroutine between two suspension points      *)
(* (await) of the asyncio event loop; the code between two awaits is       *)
(* atomic, as it is under asyncio's cooperative scheduling.                *)
(***************************************************************************)
EXTENDS Integers, Sequences, FiniteSets, TLC

\* ---- bounds of the model ------------------------------------------------
MaxConns == 2          \* connection handles opened in one run
MaxRecv  == 2          \* messages received in Monitoring on one handle
MaxBeats == 2          \* heartbeats sent on one handle
MaxSeq   == 2          \* sequence numbers carried by inbound messages

\* ---- program constants --------------------------------------------------
max_retries  == 5
OP_HEARTBEAT == 1
OP_IDENTIFY  == 2
OP_PRESENCE  == 3
OP_RECONNECT == 7
OP_ACK       == 11
OP_DISPATCH  == 0
Null         == -1     \* Python None
VALIDATE_MAX_TRIES == 5  \* max_tries of the decorator of validate_token
UPDATE_MAX_TRIES   == 3  \* max_tries of the decorator of update_display_name
UserInfo     == 1      \* the identity record of response.json()

Min(a, b) == IF a < b THEN a ELSE b

\* hello payloads: heartbeat_interval in milliseconds, or malformed (KeyError)
Intervals == {41250}
\* outcomes of one attempt of a REST call: a 2xx response, a 400 response,
\* an aiohttp.ClientError, any other exception
ValidateResponses == {"ok", "client_error", "other_error"}
UpdateResponses == {"ok", "bad_request", "client_error", "other_error"}
\* inbound messages of the Monitoring loop
Messages == [op : {OP_DISPATCH, OP_RECONNECT, OP_ACK}, s : {Null} \cup (1..MaxSeq)]

VARIABLES
  pc,                 \* position of maintain_presence
  retry_count,        \* local retry_count
  wait_time,          \* local wait_time of the last backoff
  shutdown,           \* self._shutdown_event
  tasks,              \* self._tasks (ids of heartbeat tasks)
  heartbeat_interval, \* self.heartbeat_interval, as [whole, milli] seconds
  last_sequence,      \* self.last_sequence
  data,               \* local data: the decoded message of the current iteration
  conn,               \* number of connection handles opened so far
  wsState,            \* state of the current handle
  pending,            \* exception propagating out of the async with block
  hb,                 \* the heartbeat task: [state, ws, cancel]
  sent,               \* messages sent on the current handle while it is not closed
  beat,               \* the heartbeat message being sent (ws.send has not returned)
  recvd,              \* messages received in Monitoring on that handle
  reported,           \* "Max retries reached" was printed
  cl,                 \* position of cleanup()
  user_info,          \* self.user_info
  tries,              \* attempts the backoff decorator made of the current REST call
  resp,               \* outcome of the last attempt of that call
  \* history variables, read by the properties only
  leave,              \* why the last connection was left ("none" once a new one is open)
  rcAtLeave,          \* retry_count when the last connection was left
  waited,             \* a backoff sleep was taken since the connection was left
  connFailRun,        \* consecutive failed websockets.connect calls
  failsSinceIdentify, \* counted failures since the last successful handshake
  stopSignaled,       \* the current heartbeat task was told to stop
  shutdownInMonitor,  \* shutdown was requested while in Monitoring
  recvAfterShutdown   \* receives completed after that request

vars == <<pc, retry_count, wait_time, shutdown, tasks, heartbeat_interval,
          last_sequence, data, conn, wsState, pending, hb, sent, beat, recvd,
          reported, cl, user_info, tries, resp, leave, rcAtLeave, waited, connFailRun,
          failsSinceIdentify, stopSignaled, shutdownInMonitor,
          recvAfterShutdown>>

mainVars == <<pc, retry_count, wait_time, heartbeat_interval, last_sequence,
              data, conn, pending, recvd, reported>>
histVars == <<leave, rcAtLeave, waited, connFailRun, failsSinceIdentify>>
restVars == <<user_info, tries, resp>>

NoTask == [state |-> "none", ws |-> 0, cancel |-> FALSE]
NoData == [op |-> Null, s |-> Null]

\* ---- pure pieces of the code --------------------------------------------

\* the loop test written with <= (one attempt too many)
ShouldContinueOffByOne(rc, sd) == rc <= max_retries /\ ~sd

\* line 130: while retry_count < max_retries and not shutdown
ShouldContinue(rc, sd) == rc < max_retries /\ ~sd

\* the wait computed from the counter before its increment
WaitTimeStale(rc) == Min((rc - 1) * 5, 30)

\* line 174: wait_time = min(retry_count * 5, 30)
WaitTime(rc) == Min(rc * 5, 30)

\* line 134: heartbeat_interval = payload["d"]["heartbeat_interval"] / 1000
Seconds(ms) == [whole |-> ms \div 1000, milli |-> ms % 1000]

\* a Monitoring loop that does not test the shutdown event
MonitorContinueBlind(sd) == TRUE

\* line 145: while not self._shutdown_event.is_set()
MonitorContinue(sd) == ~sd

\* the dispatch without the test `is not None`
DispatchNoNoneTest(d, ls) ==
  IF d.op = OP_ACK THEN [next |-> "continue", last_sequence |-> ls]
  ELSE IF d.op = OP_RECONNECT THEN [next |-> "break", last_sequence |-> ls]
  ELSE [next |-> "continue", last_sequence |-> d.s]

\* lines 148-157: dispatch of one decoded message
Dispatch(d, ls) ==
  IF d.op = OP_ACK THEN [next |-> "continue", last_sequence |-> ls]
  ELSE IF d.op = OP_RECONNECT THEN [next |-> "break", last_sequence |-> ls]
  ELSE [next |-> "continue",
        last_sequence |-> IF d.s # Null THEN d.s ELSE ls]

\* a message as logged in sent: the handle it went to and its opcode
Sent(ws, op) == [ws |-> ws, op |-> op]

\* an identify sent with the opcode of presence-update
send_auth_wrong_op(log, ws) == Append(log, Sent(ws, OP_PRESENCE))

\* lines 196-209 and 211-228: the messages of the handshake
send_auth(log, ws) == Append(log, Sent(ws, OP_IDENTIFY))
send_custom_status(log, ws) == Append(log, Sent(ws, OP_PRESENCE))
\* lines 190-194: the heartbeat message, {"op": 1, "d": self.last_sequence}
send_heartbeat(ls) == [op |-> OP_HEARTBEAT, d |-> ls]
NoBeat == [op |-> Null, d |-> Null]

\* task.cancel(): a request, taken by the task when it next runs
CancelTask(h) ==
  IF h.state \in {"none", "done", "failed"} THEN h ELSE [h EXCEPT !.cancel = TRUE]

\* CancelledError caught inside the loop: the task goes on
OnCancelledSwallow(h) == [h EXCEPT !.cancel = FALSE, !.state = "sleeping"]

\* lines 183-188: what the task does when CancelledError is thrown into it
OnCancelled(h) == [h EXCEPT !.state = "done"]

\* a loop that catches the exception of a failed send and tries again
SendFailedRetry(h) == [h EXCEPT !.state = "sleeping"]

\* lines 183-188: an exception of ws.send other than CancelledError is not
\* caught; it ends the task
SendFailed(h) == [h EXCEPT !.state = "failed"]

\* lines 66-74: the body of validate_token: what it returns and what it raises
validate_token(r) ==
  IF r = "ok" THEN [ret |-> TRUE, raised |-> "none"]
  ELSE IF r = "client_error" THEN [ret |-> FALSE, raised |-> "none"]
  ELSE [ret |-> FALSE, raised |-> "other"]

\* lines 80-124: the body of update_display_name
update_display_name(r) ==
  IF r = "ok" THEN [ret |-> TRUE, raised |-> "none"]
  ELSE IF r \in {"bad_request", "client_error"} THEN [ret |-> FALSE, raised |-> "none"]
  ELSE [ret |-> FALSE, raised |-> "other"]

\* lines 62, 76: backoff.on_exception calls the body again when it raised
\* aiohttp.ClientError and max_tries attempts have not been made
on_exception(raised, n, max_tries) == raised = "client" /\ n < max_tries

Beats == Len(SelectSeq(sent, LAMBDA m : m.op = OP_HEARTBEAT))

Init ==
  /\ pc = "validate"
  /\ user_info = Null
  /\ tries = 0
  /\ resp = "none"
  /\ retry_count = 0
  /\ wait_time = 0
  /\ shutdown = FALSE
  /\ tasks = {}
  /\ heartbeat_interval = Seconds(0)
  /\ last_sequence = Null
  /\ data = NoData
  /\ conn = 0
  /\ wsState = "none"
  /\ pending = FALSE
  /\ hb = NoTask
  /\ sent = <<>>
  /\ beat = NoBeat
  /\ recvd = 0
  /\ reported = FALSE
  /\ cl = "idle"
  /\ leave = "none"
  /\ rcAtLeave = 0
  /\ waited = FALSE
  /\ connFailRun = 0
  /\ failsSinceIdentify = 0
  /\ stopSignaled = FALSE
  /\ shutdownInMonitor = FALSE
  /\ recvAfterShutdown = 0

\* ---- maintain_presence (lines 126-180) ----------------------------------

\* a handler whose break is not under the test of the shutdown event
ExceptHandlerGivesUp ==
  /\ pc' = "done"
  /\ UNCHANGED <<retry_count, wait_time, failsSinceIdentify>>

\* lines 169-177: except Exception, entered with the handle already closed
ExceptHandler ==
  IF shutdown
    THEN /\ pc' = "done"
         /\ UNCHANGED <<retry_count, wait_time, failsSinceIdentify>>
    ELSE /\ retry_count' = retry_count + 1
         /\ wait_time' = WaitTime(retry_count + 1)
         /\ failsSinceIdentify' = failsSinceIdentify + 1
         /\ pc' = "backoff"

\* lines 243-251: one attempt of validate_token, and what main does with the
\* outcome
ValidateToken ==
  /\ pc = "validate"
  /\ \E r \in ValidateResponses :
       LET out == validate_token(r)
       IN IF on_exception(out.raised, tries + 1, VALIDATE_MAX_TRIES)
            THEN /\ pc' = "validate"
                 /\ tries' = tries + 1 /\ resp' = r /\ user_info' = user_info
          ELSE IF out.raised # "none"
            THEN /\ pc' = "fatal"
                 /\ tries' = tries + 1 /\ resp' = r /\ user_info' = user_info
          ELSE IF out.ret
            THEN /\ pc' = "update"
                 /\ tries' = 0 /\ resp' = "none" /\ user_info' = UserInfo
            ELSE /\ pc' = "aborted"
                 /\ tries' = tries + 1 /\ resp' = r /\ user_info' = user_info
  /\ UNCHANGED <<retry_count, wait_time, shutdown, tasks, heartbeat_interval,
                 last_sequence, data, conn, wsState, pending, hb, sent, beat,
                 recvd, reported, cl, histVars, stopSignaled,
                 shutdownInMonitor, recvAfterShutdown>>

\* lines 254-261: one attempt of update_display_name; main goes on whatever
\* the call returns
UpdateDisplayName ==
  /\ pc = "update"
  /\ \E r \in UpdateResponses :
       LET out == update_display_name(r)
       IN /\ resp' = r
          /\ tries' = tries + 1
          /\ IF on_exception(out.raised, tries + 1, UPDATE_MAX_TRIES)
               THEN pc' = "update"
             ELSE IF out.raised # "none"
               THEN pc' = "fatal"
               ELSE pc' = "start"
  /\ UNCHANGED <<retry_count, wait_time, shutdown, tasks, heartbeat_interval,
                 last_sequence, data, conn, wsState, pending, hb, sent, beat,
                 recvd, reported, cl, user_info, histVars, stopSignaled,
                 shutdownInMonitor, recvAfterShutdown>>

\* lines 264, 127-128: main calls maintain_presence
StartPresence ==
  /\ pc = "start"
  /\ pc' = "loop"
  /\ retry_count' = 0
  /\ tries' = 0
  /\ resp' = "none"
  /\ UNCHANGED <<wait_time, shutdown, tasks, heartbeat_interval,
                 last_sequence, data, conn, wsState, pending, hb, sent, beat,
                 recvd, reported, cl, user_info, histVars, stopSignaled,
                 shutdownInMonitor, recvAfterShutdown>>

\* lines 130 and 179-180: loop head, and the report after the loop
LoopHead ==
  /\ pc = "loop"
  /\ IF ShouldContinue(retry_count, shutdown)
       THEN pc' = "connect" /\ UNCHANGED reported
       ELSE pc' = "done" /\ reported' = ~shutdown
  /\ UNCHANGED <<retry_count, wait_time, shutdown, tasks, heartbeat_interval,
                 last_sequence, data, conn, wsState, pending, hb, sent, beat, recvd,
                 cl, histVars, stopSignaled, shutdownInMonitor,
                 recvAfterShutdown>>
  /\ UNCHANGED restVars

\* a connect that starts every session with last_sequence = None
ConnectOkResetsSequence ==
  /\ pc = "connect"
  /\ conn < MaxConns
  /\ ~(hb.cancel /\ hb.state \notin {"done", "failed"})
  /\ conn' = conn + 1
  /\ wsState' = "open"
  /\ connFailRun' = 0
  /\ leave' = "none"
  /\ rcAtLeave' = 0
  /\ waited' = FALSE
  /\ pc' = "hello"
  /\ last_sequence' = Null
  /\ UNCHANGED <<retry_count, wait_time, shutdown, tasks, heartbeat_interval,
                 data, pending, hb, sent, beat, recvd, reported, cl,
                 failsSinceIdentify, stopSignaled, shutdownInMonitor,
                 recvAfterShutdown>>
  /\ UNCHANGED restVars

\* line 132: websockets.connect; the call suspends, so every task that was
\* cancelled has run to its end before the call returns
ConnectOk ==
  /\ pc = "connect"
  /\ conn < MaxConns
  /\ ~(hb.cancel /\ hb.state \notin {"done", "failed"})
  /\ conn' = conn + 1
  /\ wsState' = "open"
  /\ connFailRun' = 0
  /\ leave' = "none"
  /\ rcAtLeave' = 0
  /\ waited' = FALSE
  /\ pc' = "hello"
  /\ UNCHANGED <<retry_count, wait_time, shutdown, tasks, heartbeat_interval,
                 last_sequence, data, pending, hb, sent, beat, recvd, reported, cl,
                 failsSinceIdentify, stopSignaled, shutdownInMonitor,
                 recvAfterShutdown>>
  /\ UNCHANGED restVars

ConnectFail ==
  /\ pc = "connect"
  /\ ~(hb.cancel /\ hb.state \notin {"done", "failed"})
  /\ connFailRun' = connFailRun + 1
  /\ leave' = "connect"
  /\ rcAtLeave' = retry_count
  /\ waited' = FALSE
  /\ ExceptHandler
  /\ UNCHANGED <<shutdown, tasks, heartbeat_interval, last_sequence, data,
                 conn, wsState, pending, hb, sent, beat, recvd, reported, cl,
                 stopSignaled, shutdownInMonitor, recvAfterShutdown>>
  /\ UNCHANGED restVars

\* an exception raised inside the async with block before the heartbeat
\* task exists: the block is left through __aexit__, which closes the handle
FailIdentify ==
  /\ pending' = TRUE
  /\ leave' = "identify"
  /\ rcAtLeave' = retry_count
  /\ waited' = FALSE
  /\ pc' = "closing"
  /\ UNCHANGED <<retry_count, wait_time, shutdown, tasks, heartbeat_interval,
                 last_sequence, data, conn, wsState, hb, sent, beat, recvd, reported,
                 cl, connFailRun, failsSinceIdentify, stopSignaled,
                 shutdownInMonitor, recvAfterShutdown>>

\* a handshake that creates the heartbeat task right after the hello
HelloOkStartsHeartbeat ==
  /\ pc = "hello"
  /\ wsState = "open"
  /\ \E ms \in Intervals : heartbeat_interval' = Seconds(ms)
  /\ pc' = "auth"
  /\ hb' = [state |-> "pending", ws |-> conn, cancel |-> FALSE]
  /\ tasks' = tasks \cup {conn}
  /\ UNCHANGED <<retry_count, wait_time, shutdown, last_sequence, data,
                 conn, wsState, pending, sent, beat, recvd, reported, cl,
                 histVars, stopSignaled, shutdownInMonitor, recvAfterShutdown>>
  /\ UNCHANGED restVars

\* lines 133-134: the hello message
HelloOk ==
  /\ pc = "hello"
  /\ wsState = "open"
  /\ \E ms \in Intervals : heartbeat_interval' = Seconds(ms)
  /\ pc' = "auth"
  /\ UNCHANGED <<retry_count, wait_time, shutdown, tasks, last_sequence, data,
                 conn, wsState, pending, hb, sent, beat, recvd, reported, cl,
                 histVars, stopSignaled, shutdownInMonitor, recvAfterShutdown>>
  /\ UNCHANGED restVars

\* ws.recv raises ConnectionClosed, or the payload has no heartbeat_interval
HelloFail ==
  /\ pc = "hello"
  /\ wsState \in {"open", "dead"}
  /\ FailIdentify
  /\ UNCHANGED restVars

\* line 137
AuthOk ==
  /\ pc = "auth"
  /\ wsState = "open"
  /\ sent' = send_auth(sent, conn)
  /\ beat' = beat
  /\ pc' = "status"
  /\ UNCHANGED <<retry_count, wait_time, shutdown, tasks, heartbeat_interval,
                 last_sequence, data, conn, wsState, pending, hb, recvd,
                 reported, cl, histVars, stopSignaled, shutdownInMonitor,
                 recvAfterShutdown>>
  /\ UNCHANGED restVars

AuthFail ==
  /\ pc = "auth"
  /\ wsState = "dead"
  /\ FailIdentify
  /\ UNCHANGED restVars

\* a finally that forgets heartbeat_task.cancel()
FinallyNoCancel(task) == task

\* lines 165-167: finally of the Monitoring block
Finally(task) == CancelTask(task)

\* lines 138-145: presence-update, creation of the heartbeat task, and the
\* first test of the Monitoring loop
StatusOk ==
  /\ pc = "status"
  /\ wsState = "open"
  /\ sent' = send_custom_status(sent, conn)
  /\ beat' = beat
  /\ failsSinceIdentify' = 0
  /\ LET task == [state |-> "pending", ws |-> conn, cancel |-> FALSE]
     IN IF MonitorContinue(shutdown)
          THEN /\ hb' = task
               /\ tasks' = tasks \cup {conn}
               /\ stopSignaled' = FALSE
               /\ pc' = "monitor"
               /\ UNCHANGED <<pending, leave, rcAtLeave, waited>>
          ELSE /\ hb' = Finally(task)
               /\ tasks' = tasks \ {conn}
               /\ stopSignaled' = TRUE
               /\ pc' = "closing"
               /\ pending' = FALSE
               /\ leave' = "shutdown"
               /\ rcAtLeave' = retry_count
               /\ waited' = FALSE
  /\ UNCHANGED <<retry_count, wait_time, shutdown, heartbeat_interval,
                 last_sequence, data, conn, wsState, recvd, reported, cl,
                 connFailRun, shutdownInMonitor, recvAfterShutdown>>
  /\ UNCHANGED restVars

StatusFail ==
  /\ pc = "status"
  /\ wsState = "dead"
  /\ FailIdentify
  /\ UNCHANGED restVars

\* the Monitoring block is left: finally, then __aexit__ of the async with
LeaveMonitor(reason, exc) ==
  /\ hb' = Finally(hb)
  /\ tasks' = tasks \ {conn}
  /\ stopSignaled' = TRUE
  /\ pending' = exc
  /\ leave' = reason
  /\ rcAtLeave' = retry_count
  /\ waited' = FALSE
  /\ pc' = "closing"

StayInMonitor ==
  /\ pc' = "monitor"
  /\ UNCHANGED <<hb, tasks, stopSignaled, pending, leave, rcAtLeave, waited>>

CountRecv ==
  recvAfterShutdown' = IF shutdownInMonitor THEN recvAfterShutdown + 1
                                            ELSE recvAfterShutdown

\* lines 147-157: one message received and dispatched, then line 145 again
MonitorRecv ==
  /\ pc = "monitor"
  /\ wsState = "open"
  /\ recvd < MaxRecv
  /\ \E msg \in Messages :
       LET r == Dispatch(msg, last_sequence)
       IN /\ data' = msg
          /\ last_sequence' = r.last_sequence
          /\ IF r.next = "break" THEN LeaveMonitor("op7", FALSE)
             ELSE IF MonitorContinue(shutdown) THEN StayInMonitor
             ELSE LeaveMonitor("shutdown", FALSE)
  /\ recvd' = recvd + 1
  /\ CountRecv
  /\ UNCHANGED <<retry_count, wait_time, shutdown, heartbeat_interval, conn,
                 wsState, sent, beat, reported, cl, connFailRun, failsSinceIdentify,
                 shutdownInMonitor>>
  /\ UNCHANGED restVars

\* lines 147, 159-160: the 30 second timeout of one receive
MonitorTimeout ==
  /\ pc = "monitor"
  /\ wsState = "open"
  /\ recvAfterShutdown <= MaxRecv
  /\ IF MonitorContinue(shutdown) THEN StayInMonitor
     ELSE LeaveMonitor("shutdown", FALSE)
  /\ CountRecv
  /\ UNCHANGED <<retry_count, wait_time, shutdown, heartbeat_interval,
                 last_sequence, data, conn, wsState, sent, beat, recvd, reported, cl,
                 connFailRun, failsSinceIdentify, shutdownInMonitor>>
  /\ UNCHANGED restVars

\* lines 162-164: ConnectionClosed is caught inside the async with block
MonitorClosed ==
  /\ pc = "monitor"
  /\ wsState = "dead"
  /\ LeaveMonitor("closed", FALSE)
  /\ CountRecv
  /\ UNCHANGED <<retry_count, wait_time, shutdown, heartbeat_interval,
                 last_sequence, data, conn, wsState, sent, beat, recvd, reported, cl,
                 connFailRun, failsSinceIdentify, shutdownInMonitor>>
  /\ UNCHANGED restVars

\* line 148 or 150-156 raises (undecodable message, missing key): the
\* exception is not a ConnectionClosed and leaves the async with block
MonitorError ==
  /\ pc = "monitor"
  /\ wsState = "open"
  /\ recvd < MaxRecv
  /\ recvd' = recvd + 1
  /\ data' = NoData    \* nothing usable was decoded
  /\ LeaveMonitor("error", TRUE)
  /\ CountRecv
  /\ UNCHANGED <<retry_count, wait_time, shutdown, heartbeat_interval,
                 last_sequence, conn, wsState, sent, beat, reported, cl,
                 connFailRun, failsSinceIdentify, shutdownInMonitor>>
  /\ UNCHANGED restVars

\* __aexit__ of websockets.connect (line 132): the handle is closed, then the
\* pending exception, if any, reaches the handler of lines 169-177
Close ==
  /\ pc = "closing"
  /\ wsState' = "closed"
  /\ pending' = FALSE
  /\ IF pending THEN ExceptHandler
     ELSE /\ pc' = "loop"
          /\ UNCHANGED <<retry_count, wait_time, failsSinceIdentify>>
  /\ data' = NoData    \* the loop's local is dead outside the block
  /\ sent' = <<>>      \* nothing can be sent or received on a closed handle
  /\ beat' = NoBeat
  /\ recvd' = 0
  /\ UNCHANGED <<shutdown, tasks, heartbeat_interval, last_sequence,
                 conn, hb, reported, cl, leave, rcAtLeave, waited,
                 connFailRun, stopSignaled, shutdownInMonitor,
                 recvAfterShutdown>>
  /\ UNCHANGED restVars

\* line 177: await asyncio.sleep(wait_time)
Backoff ==
  /\ pc = "backoff"
  /\ waited' = TRUE
  /\ pc' = "loop"
  /\ UNCHANGED <<retry_count, wait_time, shutdown, tasks, heartbeat_interval,
                 last_sequence, data, conn, wsState, pending, hb, sent, beat, recvd,
                 reported, cl, leave, rcAtLeave, connFailRun,
                 failsSinceIdentify, stopSignaled, shutdownInMonitor,
                 recvAfterShutdown>>
  /\ UNCHANGED restVars

\* the peer or the network drops the connection
ConnDrop ==
  /\ wsState = "open"
  /\ pc \in {"hello", "auth", "status", "monitor"}
  /\ wsState' = "dead"
  /\ UNCHANGED <<mainVars, shutdown, tasks, hb, sent, beat, cl, histVars,
                 stopSignaled, shutdownInMonitor, recvAfterShutdown>>
  /\ UNCHANGED restVars

\* ---- _heartbeat_loop (lines 182-194) ------------------------------------

\* a loop that sleeps before it sends: the first run only starts the sleep
HbRunSleepFirst ==
  /\ hb.state \in {"pending", "sleeping"}
  /\ ~hb.cancel
  /\ IF hb.state = "pending" /\ ~shutdown
       THEN hb' = [hb EXCEPT !.state = "sleeping"] /\ UNCHANGED <<sent, beat>>
     ELSE IF shutdown
       THEN hb' = [hb EXCEPT !.state = "done"] /\ UNCHANGED <<sent, beat>>
       ELSE IF hb.ws = conn /\ wsState = "open"
         THEN /\ Beats < MaxBeats
              /\ beat' = send_heartbeat(last_sequence)
              /\ sent' = Append(sent, Sent(hb.ws, beat'.op))
              /\ hb' = [hb EXCEPT !.state = "sending"]
         ELSE hb' = SendFailed(hb) /\ UNCHANGED <<sent, beat>>
  /\ UNCHANGED <<mainVars, shutdown, tasks, wsState, cl, histVars,
                 stopSignaled, shutdownInMonitor, recvAfterShutdown>>
  /\ UNCHANGED restVars

\* lines 184-185: loop test, then the send starts
HbRun ==
  /\ hb.state \in {"pending", "sleeping"}
  /\ ~hb.cancel
  /\ IF shutdown
       THEN hb' = [hb EXCEPT !.state = "done"] /\ UNCHANGED <<sent, beat>>
       ELSE IF hb.ws = conn /\ wsState = "open"
         THEN /\ Beats < MaxBeats
              /\ beat' = send_heartbeat(last_sequence)
              /\ sent' = Append(sent, Sent(hb.ws, beat'.op))
              /\ hb' = [hb EXCEPT !.state = "sending"]
         ELSE hb' = SendFailed(hb) /\ UNCHANGED <<sent, beat>>
  /\ UNCHANGED <<mainVars, shutdown, tasks, wsState, cl, histVars,
                 stopSignaled, shutdownInMonitor, recvAfterShutdown>>
  /\ UNCHANGED restVars

\* lines 185-186: the send returns and the task sleeps
HbSent ==
  /\ hb.state = "sending"
  /\ ~hb.cancel
  /\ hb' = [hb EXCEPT !.state = "sleeping"]
  /\ beat' = NoBeat
  /\ UNCHANGED <<mainVars, shutdown, tasks, wsState, sent, cl, histVars,
                 stopSignaled, shutdownInMonitor, recvAfterShutdown>>
  /\ UNCHANGED restVars

\* lines 187-188: CancelledError thrown into the task where it is suspended
HbCancelled ==
  /\ hb.cancel
  /\ hb.state \in {"pending", "sending", "sleeping"}
  /\ hb' = OnCancelled(hb)
  /\ beat' = NoBeat
  /\ UNCHANGED <<mainVars, shutdown, tasks, wsState, sent, cl, histVars,
                 stopSignaled, shutdownInMonitor, recvAfterShutdown>>
  /\ UNCHANGED restVars

\* ---- cleanup (lines 48-60) ----------------------------------------------

\* lines 50-54: set the event and cancel every task of _tasks
CleanupSignal ==
  /\ cl = "idle"
  /\ shutdown' = TRUE
  /\ hb' = IF hb.ws \in tasks THEN CancelTask(hb) ELSE hb
  /\ stopSignaled' = (stopSignaled \/ hb.ws \in tasks)
  /\ cl' = IF tasks # {} THEN "gather" ELSE "session"
  /\ shutdownInMonitor' = (pc = "monitor")
  /\ UNCHANGED <<mainVars, tasks, wsState, sent, beat, histVars, recvAfterShutdown>>
  /\ UNCHANGED restVars

\* lines 56-57: await asyncio.gather(*self._tasks, return_exceptions=True)
CleanupGather ==
  /\ cl = "gather"
  /\ hb.state \in {"done", "failed"}
  /\ cl' = "session"
  /\ UNCHANGED <<mainVars, shutdown, tasks, wsState, hb, sent, beat, histVars,
                 stopSignaled, shutdownInMonitor, recvAfterShutdown>>
  /\ UNCHANGED restVars

\* lines 59-60: await self.session.close()
CleanupClose ==
  /\ cl = "session"
  /\ cl' = "done"
  /\ UNCHANGED <<mainVars, shutdown, tasks, wsState, hb, sent, beat, histVars,
                 stopSignaled, shutdownInMonitor, recvAfterShutdown>>
  /\ UNCHANGED restVars

MainStep ==
  \/ ValidateToken \/ UpdateDisplayName \/ StartPresence
  \/ LoopHead \/ ConnectOk \/ ConnectFail \/ HelloOk \/ HelloFail
  \/ AuthOk \/ AuthFail \/ StatusOk \/ StatusFail
  \/ MonitorRecv \/ MonitorTimeout \/ MonitorClosed \/ MonitorError
  \/ Close \/ Backoff

HbStep == HbRun \/ HbSent \/ HbCancelled

CleanupStep == CleanupSignal \/ CleanupGather \/ CleanupClose

Next ==
  \/ ValidateToken \/ UpdateDisplayName \/ StartPresence
  \/ LoopHead \/ ConnectOk \/ ConnectFail \/ HelloOk \/ HelloFail
  \/ AuthOk \/ AuthFail \/ StatusOk \/ StatusFail
  \/ MonitorRecv \/ MonitorTimeout \/ MonitorClosed \/ MonitorError
  \/ Close \/ Backoff \/ ConnDrop
  \/ HbRun \/ HbSent \/ HbCancelled
  \/ CleanupSignal \/ CleanupGather \/ CleanupClose

Spec == Init /\ [][Next]_vars

\* the event loop runs every coroutine that can run; a receive is bounded by
\* its timeout; cleanup, once called, runs to its end
FairSpec ==
  /\ Spec
  /\ WF_vars(MainStep)
  /\ WF_vars(HbStep)
  /\ WF_vars(CleanupGather \/ CleanupClose)

TypeOK ==
  /\ pc \in {"validate", "update", "start", "aborted", "fatal",
             "loop", "connect", "hello", "auth", "status", "monitor",
             "closing", "backoff", "done"}
  /\ user_info \in {Null, UserInfo}
  /\ tries \in 0..VALIDATE_MAX_TRIES
  /\ resp \in {"none"} \cup UpdateResponses
  /\ retry_count \in 0..max_retries
  /\ conn \in 0..MaxConns
  /\ wsState \in {"none", "open", "dead", "closed"}
  /\ hb.state \in {"none", "pending", "sending", "sleeping", "done", "failed"}
  /\ cl \in {"idle", "gather", "session", "done"}
  /\ last_sequence \in {Null} \cup (1..MaxSeq)

\* ---- properties ---------------------------------------------------------

IsHeartbeat(m) == m.op = OP_HEARTBEAT
Handshake == SelectSeq(sent, LAMBDA m : m.op # OP_HEARTBEAT)
HbFinished == hb.state \in {"none", "done", "failed"}
HbStopped == hb.cancel \/ HbFinished

\* C1: the Retry Counter is zero after every successful handshake, so it
\* always equals the number of failures counted since the last successful
\* handshake, and exhaustion is reported only after 5 such failures.
C1_RetryCounterReset ==
  /\ retry_count = failsSinceIdentify
  /\ (reported => failsSinceIdentify = max_retries)

\* C2: after 5 consecutive failed connection attempts no further attempt is
\* made (there is never a 6th), and maintain_presence ends with the
\* exhaustion report unless shutdown was requested.
C2_ExhaustionAfterFive ==
  /\ connFailRun <= max_retries
  /\ (connFailRun = max_retries => pc \in {"backoff", "loop", "done"})
  /\ (connFailRun = max_retries /\ pc = "done" /\ ~shutdown => reported)
  /\ (reported => pc = "done" /\ retry_count = max_retries)

C2_Witness == connFailRun = max_retries /\ pc = "done" /\ reported

\* C3: after an opcode 7 in Monitoring the heartbeat task of the connection
\* is stopped, the handle is closed, the Retry Counter is unchanged, no
\* backoff is taken and, unless shutdown is requested, the loop goes on to a
\* new connection attempt.
C3_GracefulReconnect ==
  leave = "op7" =>
    /\ retry_count = rcAtLeave
    /\ retry_count < max_retries
    /\ ~waited
    /\ pc # "backoff"
    /\ (pc = "done" => shutdown)
    /\ (pc \in {"closing", "loop", "connect"} => HbStopped /\ conn \notin tasks)
    /\ (pc \in {"loop", "connect"} => wsState = "closed")

C3_Witness == leave = "op7" /\ pc = "connect" /\ retry_count = 2 /\ hb.cancel

\* C4: a connection closed in Monitoring and a failure in Identifying are
\* treated alike: each increments the Retry Counter by one and takes the
\* backoff wait before the next connection attempt.
C4_FailuresTreatedAlike ==
  pc = "connect" /\ leave \in {"closed", "identify"} =>
    retry_count = rcAtLeave + 1 /\ waited

\* C5: every backoff wait equals min(n*5, 30), n being the Retry Counter
\* after its increment, n in 1..5.
C5_BackoffWait ==
  pc = "backoff" =>
    /\ retry_count \in 1..max_retries
    /\ wait_time = IF retry_count * 5 < 30 THEN retry_count * 5 ELSE 30

C5_Witness == pc = "backoff" /\ retry_count = max_retries /\ wait_time = 25

\* C6: on every handle identify and presence-update are sent at most once,
\* in that order, before any heartbeat and before the first Monitoring
\* receive; a handle whose handshake succeeded has sent exactly one pair.
C6_IdentifyThenPresence ==
  /\ \A i \in 1..Len(sent) : sent[i].ws = conn
  /\ Len(Handshake) <= 2
  /\ (Len(Handshake) >= 1 => sent[1].op = OP_IDENTIFY)
  /\ (Len(Handshake) = 2 => sent[2].op = OP_PRESENCE)
  /\ (pc = "monitor" \/ recvd > 0 \/ Beats > 0
        \/ (wsState \in {"open", "dead"} /\ hb.ws = conn)
        => Len(Handshake) = 2)

C6_Witness ==
  conn = 2 /\ pc = "monitor" /\ recvd > 0 /\ Beats > 0 /\ Len(Handshake) = 2

\* C7: no heartbeat send starts after the heartbeat task was cancelled or
\* after the shutdown event was set.
C7_NoSendAfterStop ==
  [][(Len(sent') = Len(sent) + 1 /\ IsHeartbeat(sent'[Len(sent')]))
       => ~stopSignaled /\ ~shutdown]_vars

\* a send in flight when the stop signal comes
C7_Witness == stopSignaled /\ hb.cancel /\ hb.state = "sending" /\ Beats > 0

\* C8: the heartbeat task of a connection has finished before the handle of
\* that connection is closed and before the next handle is opened.
C8_JoinedBeforeClose ==
  /\ (wsState = "closed" /\ hb.ws = conn => HbFinished)
  /\ (pc = "hello" => HbFinished)

\* C9 (as stated): last_sequence never decreases during the life of a handle
\* and changes only when a message with a non-null sequence is processed.
C9_Monotonic ==
  [][/\ (conn' = conn => last_sequence' >= last_sequence)
     /\ (last_sequence' # last_sequence => pc = "monitor" /\ data'.s # Null)]_vars

\* C9 (amended): last_sequence changes only in the step that processes an
\* inbound Monitoring message with a non-null sequence field, and that step
\* sets it to the value carried by the message.
C9_FollowsInbound ==
  [][last_sequence' # last_sequence =>
       /\ pc = "monitor"
       /\ recvd' = recvd + 1
       /\ data'.s # Null
       /\ last_sequence' = data'.s]_vars

C9_Witness ==
  pc = "monitor" /\ recvd = 2 /\ data.op = OP_DISPATCH /\ data.s = 1
    /\ last_sequence = 1

\* C10: when shutdown is requested in Monitoring the heartbeat task is
\* stopped and, once cleanup has gathered it, finished; nothing more is sent,
\* no connection is opened, at most one receive completes, after which the
\* loop is left, the handle closed, and maintain_presence ends without the
\* exhaustion report.
C10_ShutdownInMonitoring ==
  /\ [](shutdownInMonitor =>
          /\ HbStopped
          /\ (cl \in {"session", "done"} => HbFinished)
          /\ recvAfterShutdown <= 1
          /\ (recvAfterShutdown = 1 => pc \in {"closing", "loop", "done"})
          /\ (recvAfterShutdown = 0 => pc = "monitor")
          /\ (pc \in {"loop", "done"} => wsState = "closed")
          /\ ~reported)
  /\ [][shutdownInMonitor => Len(sent') <= Len(sent) /\ conn' = conn]_vars
  /\ (shutdownInMonitor ~>
        (pc = "done" /\ wsState = "closed" /\ HbFinished /\ cl = "done"))

C10_Witness ==
  /\ shutdownInMonitor /\ pc = "done" /\ recvAfterShutdown = 1
  /\ cl = "done" /\ hb.state = "done" /\ hb.ws = conn /\ ~reported

\* C11: after a lost connection or a failed attempt, while the cap is not
\* reached and shutdown is not requested, a new connection attempt is
\* eventually made; maintain_presence ends only by exhaustion of the cap or
\* by a shutdown request.
C11_AutomaticRecovery ==
  /\ [](pc = "done" => shutdown \/ (reported /\ retry_count = max_retries))
  /\ ((leave # "none" /\ pc \in {"closing", "backoff", "loop"})
        ~> (pc = "connect" \/ shutdown \/ retry_count = max_retries))

C11_Witness ==
  leave = "closed" /\ pc = "connect" /\ conn = 1 /\ ~shutdown /\ retry_count = 4

\* C14: no backoff wait is taken once the Retry Counter has reached 5, and a
\* backoff wait is followed by a new connection attempt (or by the end on a
\* shutdown request).
C14_NoWaitAtCap ==
  /\ (pc = "backoff" => retry_count < max_retries)
  /\ (waited /\ pc = "done" => shutdown)

\* C15: every message received in Monitoring with a non-null sequence sets
\* last_sequence to that value, whatever its opcode.
C15_SequenceBeforeDispatch ==
  [][(pc = "monitor" /\ recvd' = recvd + 1 /\ data'.s # Null)
       => last_sequence' = data'.s]_vars

\* C16: a heartbeat carries last_sequence as it is when the send starts, which
\* is the sequence of the most recent inbound message that carried one.
C16_HeartbeatPayload ==
  [][(Len(sent') = Len(sent) + 1 /\ IsHeartbeat(sent'[Len(sent')]))
       => /\ beat'.d = last_sequence
          /\ (data.s # Null => beat'.d = data.s)]_vars

\* C20: last_sequence, once set, is never None again, and it changes nowhere
\* but in Monitoring: it keeps its value across reconnects.
C20_SequenceSurvivesReconnect ==
  [][/\ (last_sequence # Null => last_sequence' # Null)
     /\ (pc # "monitor" => last_sequence' = last_sequence)]_vars

\* the first heartbeat of the second handle carries a sequence number while
\* nothing has been received on that handle
C20_Witness ==
  /\ conn = 2 /\ recvd = 0 /\ data = NoData /\ Beats = 1
  /\ hb.state = "sending" /\ beat.d # Null

\* C17: the first heartbeat is sent no earlier than one heartbeat interval
\* after the scheduler starts, and one heartbeat per interval after that: every
\* send of a heartbeat, the first included, is made by a task that comes out
\* of its interval sleep.
C17_WaitBeforeFirstBeat ==
  [][(Len(sent') = Len(sent) + 1 /\ IsHeartbeat(sent'[Len(sent')]))
       => hb.state = "sleeping"]_vars

\* C17 as the code has it: the first heartbeat of a connection is sent on the
\* first run of the task, with no sleep before it; every later heartbeat is
\* sent by the task coming out of its interval sleep, and the task starts a
\* sleep only when a send has returned.
C17_FirstBeatImmediate ==
  /\ [][(Len(sent') = Len(sent) + 1 /\ IsHeartbeat(sent'[Len(sent')]))
          => \/ Beats = 0 /\ hb.state = "pending"
             \/ Beats > 0 /\ hb.state = "sleeping"]_vars
  /\ [][(hb'.state = "sleeping" /\ hb.state # "sleeping")
          => hb.state = "sending" /\ hb'.ws = hb.ws]_vars

C17_Witness ==
  Beats = 2 /\ hb.state = "sending" /\ hb.ws = conn /\ ~shutdown

\* C18: the heartbeat scheduler is started after the hello is received and
\* before identify is sent: whenever identify or the presence update is about
\* to be sent, the connection has a heartbeat task.
C18_SchedulerBeforeIdentify ==
  pc \in {"auth", "status"} => hb.ws = conn /\ hb.state # "none"

\* C18 as the code has it: while the hello, identify and the presence update
\* of a connection are outstanding the connection has no heartbeat task; the
\* task is created by the step that sends the presence update, so a
\* connection that has a task has sent identify and the presence update.
C18_SchedulerAfterPresence ==
  /\ [](pc \in {"hello", "auth", "status"} => hb.ws # conn /\ conn \notin tasks)
  /\ [][(hb'.ws = conn /\ hb.ws # conn)
          => /\ pc = "status"
             /\ Len(sent') = 2
             /\ sent'[1].op = OP_IDENTIFY
             /\ sent'[2].op = OP_PRESENCE
             /\ hb'.state = "pending"]_vars

C18_Witness ==
  /\ pc = "monitor" /\ hb.ws = conn /\ hb.state = "pending"
  /\ Len(sent) = 2 /\ conn \in tasks

C12_RestRetries ==
  /\ (pc = "aborted" /\ resp = "client_error" => tries = VALIDATE_MAX_TRIES)
  /\ (pc = "start" /\ resp = "client_error" => tries = UPDATE_MAX_TRIES)
  /\ (pc = "start" /\ resp = "bad_request" => tries = 1)

\* C13: maintain_presence is started if and only if validation succeeded: no
\* gateway connection is opened without a validated identity, and once the
\* identity is validated every outcome of the display-name update is followed
\* by the start of maintain_presence.
C13_CoreIffValidated ==
  /\ [](pc \notin {"validate", "update", "aborted", "fatal"} => user_info # Null)
  /\ [](user_info = Null => conn = 0)
  /\ [][pc = "update" => pc' \in {"update", "start"}]_vars

====
